---- MODULE Spec2Model ----
(***************************************************************************)
(* meshcat.py: a bridge between standard input/output and a meshtastic     *)
(* node.  The module models                                                *)
(*   - the main program (transport selection, --remote parsing, the read   *)
(*     loop in its binary and text variants, the interrupt handler and the *)
(*     shutdown), under Spec and FairSpec;                                 *)
(*   - the receive callback onReceive, under RecvSpec.                     *)
(* Text is modelled as sequences of Unicode code points and byte strings   *)
(* as sequences of byte values, so that decoding, stripping, formatting    *)
(* and parsing are computed and not assumed.  A Python integer is the pair *)
(* <<hi, lo>> of its base-65536 limbs (value hi * 65536 + lo), since node  *)
(* numbers such as the broadcast address 0xffffffff exceed 31 bits.        *)
(***************************************************************************)
EXTENDS Integers, Sequences, FiniteSets, TLC

VARIABLES
    binary,        \* args['binary']
    args_remote,   \* args['remote'], a string
    args_wifi,     \* args['wifi'] is non-empty
    args_bluetooth,\* args['bluetooth'] is non-empty
    stdin,         \* what is left of standard input
    pc,            \* position of the main program
    mt_interface,  \* the transport object
    created,       \* number of transport constructors called
    remote_num,    \* Optional[int]
    subscribed,    \* pub.subscribe(onReceive, ...) has run
    must_exit,     \* loop flag
    reads,         \* what the loop has read so far: lines (text) or chunks (binary)
    calls,         \* the Send Path invocations, in order
    sent,          \* the sendText/sendData calls the transport has seen, in order
    closes,        \* number of mt_interface.close() calls
    stdout,        \* standard output written by onReceive
    stderr,        \* diagnostic stream written by onReceive
    packet,        \* the packet of the last onReceive call
    outcome,       \* how the last onReceive call ended
    received       \* number of onReceive calls

vars == <<binary, args_remote, args_wifi, args_bluetooth, stdin, pc, mt_interface,
          created, remote_num, subscribed, must_exit, reads, calls, sent, closes,
          stdout, stderr, packet, outcome, received>>

mainVars == <<binary, args_remote, args_wifi, args_bluetooth, stdin, pc, mt_interface,
              created, remote_num, subscribed, must_exit, reads, calls, sent, closes>>

recvVars == <<stdout, stderr, packet, outcome, received>>

(***************************************************************************)
(* Bounds of the model.                                                    *)
(***************************************************************************)
MaxTextLen == 3      \* characters of standard input in text mode
MaxBinaryLen == 401  \* bytes of standard input in binary mode
MaxPackets == 2      \* onReceive calls in one behaviour

(***************************************************************************)
(* Python values.                                                          *)
(***************************************************************************)
PyNone == [t |-> "NoneType", v |-> <<>>]
PyAbsent == [t |-> "absent", v |-> <<>>]          \* the key is not in the dict
PyStr(s) == [t |-> "str", v |-> s]
PyBytes(b) == [t |-> "bytes", v |-> b]
PyInt(n) == [t |-> "int", v |-> <<n \div 65536, n % 65536>>]
IntOf(x) == x.v[1] * 65536 + x.v[2]

\* bool(x) for None, int and str
Truthy(x) ==
    CASE x.t = "NoneType" -> FALSE
      [] x.t = "int" -> x.v # <<0, 0>>
      [] OTHER -> x.v # <<>>

\* x == y for the values above
PyEq(x, y) == x.t = y.t /\ x.v = y.v

Min(a, b) == IF a <= b THEN a ELSE b

\* meshtastic.BROADCAST_NUM = 0xffffffff
BROADCAST_NUM == [t |-> "int", v |-> <<65535, 65535>>]

max_binary_read_bytes == 200

(***************************************************************************)
(* --remote parsing (int(s) and int(s, 16) on digit strings).              *)
(***************************************************************************)
DigitVal(c) ==
    IF c \in 48..57 THEN c - 48
    ELSE IF c \in 97..102 THEN c - 87
    ELSE IF c \in 65..70 THEN c - 55
    ELSE 99

RECURSIVE DigitsToInt(_, _, _)
DigitsToInt(s, base, acc) ==
    IF s = <<>> THEN acc
    ELSE LET lo == acc[2] * base + DigitVal(Head(s))
         IN  DigitsToInt(Tail(s), base, <<acc[1] * base + lo \div 65536, lo % 65536>>)

\* int(s, base): a ValueError unless s is a non-empty string of digits of the base
PyIntParse(s, base) ==
    IF s # <<>> /\ \A i \in 1..Len(s) : DigitVal(s[i]) < base
    THEN [ok |-> TRUE, val |-> [t |-> "int", v |-> DigitsToInt(s, base, <<0, 0>>)]]
    ELSE [ok |-> FALSE, val |-> PyNone]

\* s.replace('!', '')
RemoveBang(s) == SelectSeq(s, LAMBDA c : c # 33)

ParseRemote(arg) ==
    IF arg = <<>> THEN [ok |-> TRUE, val |-> PyNone]
    ELSE IF arg[1] = 33 THEN PyIntParse(RemoveBang(arg), 16)
    ELSE PyIntParse(arg, 10)

(***************************************************************************)
(* Send Path.  Each operator yields the calls made on the interface.       *)
(***************************************************************************)
send_data(raw_data, remid) ==
    IF remid.t # "NoneType"
    THEN <<[op |-> "sendData", payload |-> raw_data, destinationId |-> remid]>>
    ELSE <<[op |-> "sendData", payload |-> raw_data, destinationId |-> BROADCAST_NUM]>>

\* send_message testing "if remid:" where the code tests "is not None"
send_message_truthy(message, remid) ==
    IF Truthy(remid)
    THEN <<[op |-> "sendText", payload |-> message, destinationId |-> remid]>>
    ELSE <<[op |-> "sendText", payload |-> message, destinationId |-> BROADCAST_NUM]>>

send_message(message, remid) ==
    IF remid.t # "NoneType"
    THEN <<[op |-> "sendText", payload |-> message, destinationId |-> remid]>>
    ELSE <<[op |-> "sendText", payload |-> message, destinationId |-> BROADCAST_NUM]>>

(***************************************************************************)
(* Standard input.                                                         *)
(***************************************************************************)
\* str.isspace() on the code points below 256
IsSpace(c) == c \in {9, 10, 11, 12, 13, 28, 29, 30, 31, 32, 133, 160}

\* str.rstrip() with no argument
RECURSIVE rstrip(_)
rstrip(s) ==
    IF s # <<>> /\ IsSpace(s[Len(s)]) THEN rstrip(SubSeq(s, 1, Len(s) - 1)) ELSE s

\* the next line the iteration over sys.stdin yields: up to and including the
\* first line feed, or all that is left when there is none
RECURSIVE LineLen(_, _)
LineLen(buf, i) ==
    IF i > Len(buf) THEN Len(buf)
    ELSE IF buf[i] = 10 THEN i
    ELSE LineLen(buf, i + 1)

ReadLine(buf) == SubSeq(buf, 1, LineLen(buf, 1))

\* sizes sys.stdin.buffer.read(n) may return with rem bytes left: 0 only at
\* end of stream, else all that is asked for and available, or (an
\* interactive stream) fewer
ReadSizes(n, rem) ==
    IF rem = 0 THEN {0}
    ELSE {Min(n, rem), (Min(n, rem) + 1) \div 2}

TextAlphabet == {104, 32, 10}      \* 'h', ' ', '\n'

RECURSIVE StringsUpTo(_, _)
StringsUpTo(A, n) ==
    IF n = 0 THEN {<<>>}
    ELSE LET S == StringsUpTo(A, n - 1)
         IN  S \cup {Append(s, c) : s \in S, c \in A}

TextInputs == StringsUpTo(TextAlphabet, MaxTextLen)

BinaryPattern(n) == [i \in 1..n |-> i % 256]

BinaryInputs ==
    {BinaryPattern(n) : n \in {0, 1, max_binary_read_bytes,
                               max_binary_read_bytes + 1, MaxBinaryLen}}

\* '', '0', '!0', '42', '!2a', '43', '!ffffffff', '!'
RemoteArgs ==
    {<<>>, <<48>>, <<33, 48>>, <<52, 50>>, <<33, 50, 97>>, <<52, 51>>,
     <<33, 102, 102, 102, 102, 102, 102, 102, 102>>, <<33>>}

NoInterface == [kind |-> "none", stream |-> FALSE]

(***************************************************************************)
(* Conversions used by onReceive.                                          *)
(***************************************************************************)
Devel == TRUE

Ok(val) == [exc |-> "", val |-> val]
Raise(type) == [exc |-> type, val |-> <<>>]

\* d.get(key, default) on a field that may be absent
Get(x, default) == IF x.t = "absent" THEN default ELSE x

\* bytes.decode('utf-8'), strict
RECURSIVE Utf8(_, _)
Utf8(b, acc) ==
    LET n == Len(b)
        Cont(i) == i <= n /\ b[i] \in 128..191
    IN  IF n = 0 THEN Ok(acc)
        ELSE IF b[1] < 128 THEN Utf8(Tail(b), Append(acc, b[1]))
        ELSE IF b[1] \in 194..223 /\ Cont(2)
             THEN Utf8(SubSeq(b, 3, n), Append(acc, (b[1] - 192) * 64 + (b[2] - 128)))
        ELSE IF b[1] \in 224..239 /\ Cont(2) /\ Cont(3)
             THEN LET cp == (b[1] - 224) * 4096 + (b[2] - 128) * 64 + (b[3] - 128)
                  IN  IF cp < 2048 \/ cp \in 55296..57343
                      THEN Raise("UnicodeDecodeError")
                      ELSE Utf8(SubSeq(b, 4, n), Append(acc, cp))
        ELSE IF b[1] \in 240..244 /\ Cont(2) /\ Cont(3) /\ Cont(4)
             THEN LET cp == (b[1] - 240) * 262144 + (b[2] - 128) * 4096
                            + (b[3] - 128) * 64 + (b[4] - 128)
                  IN  IF cp < 65536 \/ cp > 1114111
                      THEN Raise("UnicodeDecodeError")
                      ELSE Utf8(SubSeq(b, 5, n), Append(acc, cp))
        ELSE Raise("UnicodeDecodeError")

\* x.decode('utf-8'): only bytes have the method
Decode(x) == IF x.t = "bytes" THEN Utf8(x.v, <<>>) ELSE Raise("AttributeError")

\* decimal digits of a natural number
RECURSIVE NatStr(_)
NatStr(n) == IF n < 10 THEN <<48 + n>> ELSE Append(NatStr(n \div 10), 48 + (n % 10))

IntStr(n) == IF n < 0 THEN <<45>> \o NatStr(0 - n) ELSE NatStr(n)

RECURSIVE StripZeros(_)
StripZeros(s) ==
    IF Len(s) > 1 /\ s[Len(s)] = 48 THEN StripZeros(SubSeq(s, 1, Len(s) - 1)) ELSE s

RECURSIVE PadLeft(_, _)
PadLeft(s, n) == IF Len(s) >= n THEN s ELSE PadLeft(<<48>> \o s, n)

\* str(i / 10000000) for an integer i: the shortest decimal that reads back
\* as the quotient, in exponent form below 0.0001
FloatStr(i) ==
    LET a == IF i < 0 THEN 0 - i ELSE i
        sign == IF i < 0 THEN <<45>> ELSE <<>>
        m == StripZeros(NatStr(a))
    IN  IF a = 0 THEN <<48, 46, 48>>
        ELSE IF a >= 1000
             THEN sign \o NatStr(a \div 10000000) \o <<46>>
                       \o StripZeros(PadLeft(NatStr(a % 10000000), 7))
        ELSE sign \o <<m[1]>> \o (IF Len(m) > 1 THEN <<46>> \o Tail(m) ELSE <<>>)
                  \o <<101, 45, 48>> \o NatStr(8 - Len(NatStr(a)))

\* str(x)
Str(x) ==
    CASE x.t = "str" -> x.v
      [] x.t = "int" -> IntStr(IntOf(x))
      [] x.t = "float7" -> FloatStr(IntOf(x))
      [] OTHER -> <<78, 111, 110, 101>>

\* index of a character in the base64 alphabet, 64 for any other character
B64Index(c) ==
    IF c \in 65..90 THEN c - 65
    ELSE IF c \in 97..122 THEN c - 71
    ELSE IF c \in 48..57 THEN c + 4
    ELSE IF c = 43 THEN 62
    ELSE IF c = 47 THEN 63
    ELSE 64

RECURSIVE B64Bytes(_)
B64Bytes(s) ==
    IF s = <<>> THEN <<>>
    ELSE LET w == B64Index(s[1]) * 262144 + B64Index(s[2]) * 4096
                  + B64Index(s[3]) * 64 + B64Index(s[4])
         IN  <<w \div 65536, (w \div 256) % 256, w % 256>> \o B64Bytes(SubSeq(s, 5, Len(s)))

\* base64.b64decode(s) of a string without '=': characters outside the
\* alphabet are dropped, and what is left must be whole groups of four
B64Decode(s) ==
    LET t == SelectSeq(s, LAMBDA c : B64Index(c) < 64)
    IN  IF Len(t) % 4 = 0 THEN Ok(B64Bytes(t)) ELSE Raise("binascii.Error")

HexDigit(d) == IF d < 10 THEN 48 + d ELSE 87 + d

\* meshtastic.util.hexstr: ':'.join(f"{x:02x}" for x in barray)
RECURSIVE HexStr(_)
HexStr(b) ==
    IF b = <<>> THEN <<>>
    ELSE <<HexDigit(b[1] \div 16), HexDigit(b[1] % 16)>>
         \o (IF Len(b) > 1 THEN <<58>> \o HexStr(Tail(b)) ELSE <<>>)

IsLowerHex(c) == c \in 48..57 \/ c \in 97..102

\* re.match("[0-9a-f]{2}([-:]?)[0-9a-f]{2}(\\1[0-9a-f]{2}){4}$", val)
IsMacForm(s) ==
    \/ Len(s) = 12 /\ \A i \in 1..12 : IsLowerHex(s[i])
    \/ /\ Len(s) = 17
       /\ s[3] \in {45, 58}
       /\ \A i \in 1..17 : IF i % 3 = 0 THEN s[i] = s[3] ELSE IsLowerHex(s[i])

\* meshtastic.util.convert_mac_addr
convert_mac_addr(val) ==
    IF val.t # "str" THEN Raise("TypeError")
    ELSE IF IsMacForm(val.v) THEN Ok(val.v)
    ELSE LET b == B64Decode(val.v)
         IN  IF b.exc # "" THEN b ELSE Ok(HexStr(b.val))

\* the characters of a portnum tag
PortChars(port) ==
    CASE port = "PRIVATE_APP" -> <<80, 82, 73, 86, 65, 84, 69, 95, 65, 80, 80>>
      [] OTHER -> <<>>

\* str(packet) of a packet whose decoded part holds at most a portnum: the
\* keys in the order of the protobuf fields (from, decoded, id)
PacketStr(p) ==
    LET fromItem == IF p.from.t = "absent" THEN <<>>
                    ELSE <<<<39, 102, 114, 111, 109, 39, 58, 32>> \o Str(p.from)>>
        decItem == IF ~p.decoded THEN <<>>
                   ELSE <<<<39, 100, 101, 99, 111, 100, 101, 100, 39, 58, 32, 123>>
                          \o (IF p.portnum = "absent" THEN <<>>
                              ELSE <<39, 112, 111, 114, 116, 110, 117, 109, 39, 58, 32, 39>>
                                   \o PortChars(p.portnum) \o <<39>>)
                          \o <<125>>>>
        idItem == IF p.id.t = "absent" THEN <<>>
                  ELSE <<<<39, 105, 100, 39, 58, 32>> \o Str(p.id)>>
        items == fromItem \o decItem \o idItem
        Join[i \in 0..Len(items)] ==
            IF i = 0 THEN <<>>
            ELSE Join[i - 1] \o (IF i > 1 THEN <<44, 32>> ELSE <<>>) \o items[i]
    IN  <<123>> \o Join[Len(items)] \o <<125>>

(***************************************************************************)
(* onReceive.  Each branch yields what it writes to the two streams and    *)
(* the exception it raises ("" when none).                                 *)
(***************************************************************************)
Result(out, err, exc) == [out |-> out, err |-> err, exc |-> exc]
Nothing == Result(<<>>, <<>>, "")

NA == PyStr(<<78, 47, 65>>)      \* 'N/A'

\* lines 67-73
OnNodeInfo(p) ==
    LET long_name == IF p.user THEN Get(p.longName, NA) ELSE NA
        short_name == IF p.user THEN Get(p.shortName, NA) ELSE NA
        mac_addr == convert_mac_addr(IF p.user THEN Get(p.macaddr, PyStr(<<47>>))
                                     ELSE PyStr(<<47>>))
        hw_model == Str(IF p.user THEN Get(p.hwModel, NA) ELSE NA)
    IN  IF mac_addr.exc # "" THEN Result(<<>>, <<>>, mac_addr.exc)
        ELSE IF long_name.t # "str" \/ short_name.t # "str"
             THEN Result(<<>>, <<>>, "TypeError")
        ELSE Result(<<>>,
                    <<95, 95, 110, 111, 100, 101, 105, 110, 102, 111, 58, 32>>
                    \o long_name.v \o <<47>> \o short_name.v \o <<47>>
                    \o mac_addr.val \o <<47>> \o hw_model,
                    "")

\* lines 76-81: lat / 10000000 unless lat is the default 'N/A'
Scale(x) ==
    IF PyEq(x, NA) THEN Ok(x)
    ELSE IF x.t = "int" THEN Ok([t |-> "float7", v |-> x.v])
    ELSE Raise("TypeError")

\* lines 75-83
OnPosition(p) ==
    IF ~p.position THEN Nothing
    ELSE LET lat == Scale(Get(p.latitudeI, NA))
             lon == Scale(Get(p.longitudeI, NA))
         IN  IF lat.exc # "" THEN Result(<<>>, <<>>, lat.exc)
             ELSE IF lon.exc # "" THEN Result(<<>>, <<>>, lon.exc)
             ELSE Result(<<>>,
                         <<95, 95, 112, 111, 115, 105, 116, 105, 111, 110, 58, 32>>
                         \o Str(Get(p.id, NA)) \o <<58, 32>> \o Str(lat.val)
                         \o <<44, 32>> \o Str(lon.val),
                         "")

\* lines 89-92
OnText(p) ==
    IF p.payload.t = "absent" THEN Result(<<>>, <<>>, "KeyError")
    ELSE LET message_string == Decode(p.payload)
         IN  IF message_string.exc # "" THEN Result(<<>>, <<>>, message_string.exc)
             ELSE Result(message_string.val \o <<10>>, <<>>, "")

\* lines 94-96
OnOther(p) ==
    Result(<<10>> \o <<68, 101, 99, 111, 100, 101, 100, 32, 112, 97, 99, 107, 101, 116,
                       58, 32>> \o PacketStr(p) \o <<10>> \o <<10>>,
           <<>>, "")

\* Dispatch without its ROUTING_APP arm: the tag falls to the catch-all
Dispatch_RoutingUnknown(p) ==
    IF p.decoded
    THEN CASE p.portnum = "NODEINFO_APP" -> OnNodeInfo(p)
           [] p.portnum = "POSITION_APP" -> OnPosition(p)
           [] p.portnum = "TELEMETRY_APP" -> Nothing
           [] p.portnum = "TEXT_MESSAGE_APP" -> OnText(p)
           [] OTHER -> OnOther(p)
    ELSE Nothing

\* lines 64-101
Dispatch(p) ==
    IF p.decoded
    THEN CASE p.portnum = "NODEINFO_APP" -> OnNodeInfo(p)
           [] p.portnum = "POSITION_APP" -> OnPosition(p)
           [] p.portnum = "ROUTING_APP" -> Nothing
           [] p.portnum = "TELEMETRY_APP" -> Nothing
           [] p.portnum = "TEXT_MESSAGE_APP" -> OnText(p)
           [] OTHER -> OnOther(p)
    ELSE Nothing

\* Accepts without its "or not remote_num"
Accepts_FilterOnly(remote, p) ==
    LET from_num == Get(p.from, PyInt(0))
    IN  Truthy(remote) /\ PyEq(from_num, remote)

\* line 63: (remote_num and from_num == remote_num) or not remote_num
Accepts(remote, p) ==
    LET from_num == Get(p.from, PyInt(0))
    IN  (Truthy(remote) /\ PyEq(from_num, remote)) \/ ~Truthy(remote)

\* lines 102-103 and Debug, lines 50-54: str(KeyError('payload')) is "'payload'"
KeyErrorNote ==
    IF Devel
    THEN <<69, 114, 114, 111, 114, 32, 112, 114, 111, 99, 101, 115, 115, 105, 110, 103,
           32, 112, 97, 99, 107, 101, 116, 58, 32>>
         \o <<39, 112, 97, 121, 108, 111, 97, 100, 39>> \o <<10>>
    ELSE <<>>

\* lines 57-103: only a KeyError is caught
onReceive(p, remote) ==
    LET r == IF Accepts(remote, p) THEN Dispatch(p) ELSE Nothing
    IN  IF r.exc = "KeyError" THEN Result(r.out, r.err \o KeyErrorNote, "")
        ELSE r

(***************************************************************************)
(* Packets delivered to the callback.                                      *)
(***************************************************************************)
Bare ==
    [id |-> PyAbsent, from |-> PyInt(42), decoded |-> FALSE, portnum |-> "absent",
     user |-> FALSE, longName |-> PyAbsent, shortName |-> PyAbsent,
     macaddr |-> PyAbsent, hwModel |-> PyAbsent,
     position |-> FALSE, latitudeI |-> PyAbsent, longitudeI |-> PyAbsent,
     payload |-> PyAbsent]

Tagged(port) == [Bare EXCEPT !.decoded = TRUE, !.portnum = port]

NodeInfoPacket ==
    [Tagged("NODEINFO_APP") EXCEPT
        !.user = TRUE,
        !.longName = PyStr(<<65, 108>>),                            \* 'Al'
        !.shortName = PyStr(<<65, 49>>),                            \* 'A1'
        !.macaddr = PyStr(<<47, 99, 48, 103, 70, 121, 104, 98>>),   \* '/c0gFyhb'
        !.hwModel = PyStr(<<84, 66, 69, 65, 77>>)]                  \* 'TBEAM'

PositionPacket ==
    [Tagged("POSITION_APP") EXCEPT
        !.id = PyInt(7), !.position = TRUE,
        !.latitudeI = PyInt(123456789), !.longitudeI = PyInt(-900000000)]

TextPacket(bytes) == [Tagged("TEXT_MESSAGE_APP") EXCEPT !.payload = PyBytes(bytes)]

\* every packet below with sender 42
Shapes ==
    { Bare, Tagged("ROUTING_APP"), Tagged("TELEMETRY_APP"),
      NodeInfoPacket,
      [NodeInfoPacket EXCEPT !.macaddr = PyStr(<<102, 100, 58, 99, 100, 58, 50, 48, 58,
                                                 49, 55, 58, 50, 56, 58, 53, 98>>),
                             !.hwModel = PyInt(4)],
      Tagged("NODEINFO_APP"),
      [NodeInfoPacket EXCEPT !.longName = PyInt(5)],
      PositionPacket,
      Tagged("POSITION_APP"),
      [Tagged("POSITION_APP") EXCEPT !.position = TRUE],
      [PositionPacket EXCEPT !.latitudeI = PyInt(50), !.longitudeI = PyInt(0)],
      [PositionPacket EXCEPT !.latitudeI = PyStr(<<120>>)],
      TextPacket(<<104, 105>>),             \* b'hi'
      TextPacket(<<>>),
      TextPacket(<<97, 10, 98>>),            \* b'a\nb'
      TextPacket(<<195, 169>>),              \* 'e' with acute accent
      TextPacket(<<255>>),                   \* not UTF-8
      Tagged("TEXT_MESSAGE_APP"),            \* no payload
      [Tagged("TEXT_MESSAGE_APP") EXCEPT !.payload = PyStr(<<104, 105>>)],
      Tagged("PRIVATE_APP"),
      [Bare EXCEPT !.decoded = TRUE] }

\* some of them from other senders, and without a sender
Packets ==
    Shapes \cup
    { [p EXCEPT !.from = f] :
        p \in {Bare, Tagged("ROUTING_APP"), NodeInfoPacket, PositionPacket,
               TextPacket(<<104, 105>>), Tagged("PRIVATE_APP")},
        f \in {PyAbsent, PyInt(43)} }

(***************************************************************************)
(* The main program.                                                       *)
(***************************************************************************)
Init ==
    /\ binary \in BOOLEAN
    /\ args_remote \in RemoteArgs
    /\ args_wifi \in BOOLEAN
    /\ args_bluetooth \in BOOLEAN
    /\ stdin \in IF binary THEN BinaryInputs ELSE TextInputs
    /\ pc = "transport"
    /\ mt_interface = NoInterface
    /\ created = 0
    /\ remote_num = PyNone
    /\ subscribed = FALSE
    /\ must_exit = FALSE
    /\ reads = <<>>
    /\ calls = <<>>
    /\ sent = <<>>
    /\ closes = 0
    /\ stdout = <<>>
    /\ stderr = <<>>
    /\ packet = Bare
    /\ outcome = "none"
    /\ received = 0

\* lines 137-142: wifi, else bluetooth, else serial.  The constructor may
\* raise (the process ends); the serial one may find no device and return an
\* object without a stream.
SelectTransport ==
    /\ pc = "transport"
    /\ \E ok \in BOOLEAN, dev \in BOOLEAN :
          /\ created' = created + 1
          /\ IF ok
             THEN /\ mt_interface' =
                        IF args_wifi THEN [kind |-> "tcp", stream |-> TRUE]
                        ELSE IF args_bluetooth THEN [kind |-> "ble", stream |-> TRUE]
                        ELSE [kind |-> "serial", stream |-> dev]
                  /\ pc' = "remote"
             ELSE /\ mt_interface' = mt_interface
                  /\ pc' = "crashed"
    /\ UNCHANGED <<binary, args_remote, args_wifi, args_bluetooth, stdin, remote_num,
                   subscribed, must_exit, reads, calls, sent, closes>>
    /\ UNCHANGED recvVars

\* lines 144-149
SetRemote ==
    /\ pc = "remote"
    /\ LET r == ParseRemote(args_remote)
       IN  IF r.ok
           THEN remote_num' = r.val /\ pc' = "subscribe"
           ELSE remote_num' = remote_num /\ pc' = "crashed"
    /\ UNCHANGED <<binary, args_remote, args_wifi, args_bluetooth, stdin, mt_interface,
                   created, subscribed, must_exit, reads, calls, sent, closes>>
    /\ UNCHANGED recvVars

\* line 151
Subscribe ==
    /\ pc = "subscribe"
    /\ subscribed' = TRUE
    /\ pc' = "while"
    /\ UNCHANGED <<binary, args_remote, args_wifi, args_bluetooth, stdin, mt_interface,
                   created, remote_num, must_exit, reads, calls, sent, closes>>
    /\ UNCHANGED recvVars

\* lines 157-159, 165: the loop test and the branch on args['binary']
WhileTest ==
    /\ pc = "while"
    /\ pc' = IF must_exit THEN "close" ELSE IF binary THEN "binary" ELSE "text"
    /\ UNCHANGED <<binary, args_remote, args_wifi, args_bluetooth, stdin, mt_interface,
                   created, remote_num, subscribed, must_exit, reads, calls, sent, closes>>
    /\ UNCHANGED recvVars

\* BinaryStep whose empty read leaves must_exit alone
BinaryStep_NoExit ==
    /\ pc = "binary"
    /\ \E k \in ReadSizes(max_binary_read_bytes, Len(stdin)), ok \in BOOLEAN :
          LET in_bytes == SubSeq(stdin, 1, k)
          IN  /\ stdin' = SubSeq(stdin, k + 1, Len(stdin))
              /\ reads' = Append(reads, [n |-> max_binary_read_bytes, data |-> in_bytes])
              /\ IF Len(in_bytes) = 0
                 THEN /\ pc' = "while"
                      /\ UNCHANGED <<calls, sent, must_exit>>
                 ELSE /\ calls' = Append(calls, [fn |-> "send_data", data |-> in_bytes,
                                                 remid |-> remote_num])
                      /\ sent' = sent \o send_data(in_bytes, remote_num)
                      /\ pc' = IF ok THEN "while" ELSE "crashed"
                      /\ UNCHANGED must_exit
    /\ UNCHANGED <<binary, args_remote, args_wifi, args_bluetooth, mt_interface,
                   created, remote_num, subscribed, closes>>
    /\ UNCHANGED recvVars

\* lines 160-164: one read; an empty one sets must_exit, any other is sent.
\* A send that raises ends the process (nothing catches it).
BinaryStep ==
    /\ pc = "binary"
    /\ \E k \in ReadSizes(max_binary_read_bytes, Len(stdin)), ok \in BOOLEAN :
          LET in_bytes == SubSeq(stdin, 1, k)
          IN  /\ stdin' = SubSeq(stdin, k + 1, Len(stdin))
              /\ reads' = Append(reads, [n |-> max_binary_read_bytes, data |-> in_bytes])
              /\ IF Len(in_bytes) = 0
                 THEN /\ must_exit' = TRUE
                      /\ pc' = "while"
                      /\ UNCHANGED <<calls, sent>>
                 ELSE /\ calls' = Append(calls, [fn |-> "send_data", data |-> in_bytes,
                                                 remid |-> remote_num])
                      /\ sent' = sent \o send_data(in_bytes, remote_num)
                      /\ pc' = IF ok THEN "while" ELSE "crashed"
                      /\ UNCHANGED must_exit
    /\ UNCHANGED <<binary, args_remote, args_wifi, args_bluetooth, mt_interface,
                   created, remote_num, subscribed, closes>>
    /\ UNCHANGED recvVars

\* lines 166-167, one iteration of the for loop: the next line is stripped
\* and sent
TextLine ==
    /\ pc = "text"
    /\ stdin # <<>>
    /\ \E ok \in BOOLEAN :
          LET one_line == ReadLine(stdin)
          IN  /\ stdin' = SubSeq(stdin, Len(one_line) + 1, Len(stdin))
              /\ reads' = Append(reads, [n |-> 0, data |-> one_line])
              /\ calls' = Append(calls, [fn |-> "send_message", data |-> rstrip(one_line),
                                         remid |-> remote_num])
              /\ sent' = sent \o send_message(rstrip(one_line), remote_num)
              /\ pc' = IF ok THEN "text" ELSE "crashed"
    /\ UNCHANGED <<binary, args_remote, args_wifi, args_bluetooth, mt_interface,
                   created, remote_num, subscribed, must_exit, closes>>
    /\ UNCHANGED recvVars

\* lines 166, 157: the for loop ends at end of stream; nothing is assigned,
\* and control is back at the while test
TextEOF ==
    /\ pc = "text"
    /\ stdin = <<>>
    /\ pc' = "while"
    /\ UNCHANGED <<binary, args_remote, args_wifi, args_bluetooth, stdin, mt_interface,
                   created, remote_num, subscribed, must_exit, reads, calls, sent, closes>>
    /\ UNCHANGED recvVars

\* lines 168-169: KeyboardInterrupt raised inside the try (the program is
\* blocked in the read)
Interrupt ==
    /\ pc \in {"binary", "text"}
    /\ must_exit' = TRUE
    /\ pc' = "while"
    /\ UNCHANGED <<binary, args_remote, args_wifi, args_bluetooth, stdin, mt_interface,
                   created, remote_num, subscribed, reads, calls, sent, closes>>
    /\ UNCHANGED recvVars

\* lines 171-175: close(); the AttributeError of an interface without a
\* stream is swallowed
Close ==
    /\ pc = "close"
    /\ closes' = closes + 1
    /\ pc' = "done"
    /\ UNCHANGED <<binary, args_remote, args_wifi, args_bluetooth, stdin, mt_interface,
                   created, remote_num, subscribed, must_exit, reads, calls, sent>>
    /\ UNCHANGED recvVars

MainStep ==
    \/ SelectTransport
    \/ SetRemote
    \/ Subscribe
    \/ WhileTest
    \/ BinaryStep
    \/ TextLine
    \/ TextEOF
    \/ Close

Next ==
    \/ MainStep
    \/ Interrupt

Spec == Init /\ [][Next]_vars

\* The interpreter keeps running the main program; interrupts are the user's.
FairSpec == Init /\ [][Next]_vars /\ WF_vars(MainStep)

\* the program after startup, with the callback subscribed
RecvInit ==
    /\ binary = FALSE
    /\ args_remote \in {a \in RemoteArgs : ParseRemote(a).ok}
    /\ args_wifi = FALSE
    /\ args_bluetooth = FALSE
    /\ stdin = <<>>
    /\ pc = "while"
    /\ mt_interface = [kind |-> "serial", stream |-> TRUE]
    /\ created = 1
    /\ remote_num = ParseRemote(args_remote).val
    /\ subscribed = TRUE
    /\ must_exit = FALSE
    /\ reads = <<>>
    /\ calls = <<>>
    /\ sent = <<>>
    /\ closes = 0
    /\ stdout = <<>>
    /\ stderr = <<>>
    /\ packet = Bare
    /\ outcome = "none"
    /\ received = 0

\* the pubsub delivery of one packet to onReceive
Receive ==
    /\ subscribed
    /\ received < MaxPackets
    /\ \E p \in Packets :
          LET r == onReceive(p, remote_num)
          IN  /\ packet' = p
              /\ stdout' = stdout \o r.out
              /\ stderr' = stderr \o r.err
              /\ outcome' = IF r.exc = "" THEN "returned" ELSE r.exc
    /\ received' = received + 1
    /\ UNCHANGED mainVars

RecvSpec == RecvInit /\ [][Receive]_vars

(***************************************************************************)
(* Properties.                                                             *)
(***************************************************************************)
Delivered == received' = received + 1

\* the text written to a stream by the step
Written(before, after) == SubSeq(after, Len(before) + 1, Len(after))

HasPrefix(s, pre) == Len(s) >= Len(pre) /\ SubSeq(s, 1, Len(pre)) = pre

LineFeeds(s) == Cardinality({i \in 1..Len(s) : s[i] = 10})

\* a line without its trailing line feed, if it has one
StripTerminator(line) ==
    IF line # <<>> /\ line[Len(line)] = 10 THEN SubSeq(line, 1, Len(line) - 1) ELSE line

\* C1: in text mode, once standard input is at end of stream and every line
\* has been sent, the loop is eventually left, close() is called and the
\* program ends, without an interrupt.
C1_TextEOFReachesShutdown ==
    (~binary /\ pc = "text" /\ stdin = <<>>) ~> (pc = "done" /\ closes = 1)

\* C2: onReceive never propagates an error: every call returns normally.
C2_NeverPropagates == outcome \in {"none", "returned"}

\* C3: with a destination filter configured (any integer, 0 included), a
\* packet whose sender (0 when absent) differs from the filter writes nothing
\* to either stream.
C3_FilterSilences ==
    [][(/\ Delivered
        /\ remote_num.t = "int"
        /\ ~PyEq(Get(packet'.from, PyInt(0)), remote_num))
       => (stdout' = stdout /\ stderr' = stderr)]_vars

\* C4 as stated: one interface call per Send Path call, the payload
\* unchanged, to the remote id when one is set, and to the broadcast address
\* exactly when none is set.
C4_Original ==
    /\ Len(sent) = Len(calls)
    /\ \A i \in 1..Len(sent) :
          /\ sent[i].payload = calls[i].data
          /\ sent[i].op = (IF calls[i].fn = "send_data" THEN "sendData" ELSE "sendText")
          /\ calls[i].remid.t = "int" => PyEq(sent[i].destinationId, calls[i].remid)
          /\ PyEq(sent[i].destinationId, BROADCAST_NUM) <=> calls[i].remid.t = "NoneType"

\* C4 as amended: one interface call per Send Path call, the payload
\* unchanged, to the remote id when one is set (0 included) and to the
\* broadcast address when none is set; a send with a remote id set is a
\* broadcast only when that id is the broadcast address itself.
C4_SendPath ==
    /\ Len(sent) = Len(calls)
    /\ \A i \in 1..Len(sent) :
          /\ sent[i].payload = calls[i].data
          /\ sent[i].op = (IF calls[i].fn = "send_data" THEN "sendData" ELSE "sendText")
          /\ calls[i].remid.t = "int" => PyEq(sent[i].destinationId, calls[i].remid)
          /\ calls[i].remid.t = "NoneType" => PyEq(sent[i].destinationId, BROADCAST_NUM)
          /\ PyEq(sent[i].destinationId, BROADCAST_NUM)
                => (calls[i].remid.t = "NoneType" \/ PyEq(calls[i].remid, BROADCAST_NUM))

\* a text line was sent to node 0, and not broadcast
C4_Witness ==
    /\ Len(sent) >= 1
    /\ calls[1].fn = "send_message"
    /\ calls[1].remid = PyInt(0)
    /\ sent[1].destinationId = PyInt(0)

\* the packet of the step is a text message with a decodable payload from a
\* sender the filter lets through (no filter, or the sender is the filter)
C5_Case ==
    /\ Delivered
    /\ packet'.decoded
    /\ packet'.portnum = "TEXT_MESSAGE_APP"
    /\ Decode(packet'.payload).exc = ""
    /\ \/ remote_num.t = "NoneType"
       \/ PyEq(Get(packet'.from, PyInt(0)), remote_num)

\* C5 as stated: such a packet appends exactly one line, the decoded text, to
\* standard output and nothing to the diagnostic stream.
C5_Original ==
    [][C5_Case =>
          /\ stderr' = stderr
          /\ stdout' = stdout \o Decode(packet'.payload).val \o <<10>>
          /\ LineFeeds(Written(stdout, stdout')) = 1]_vars

\* C5 as amended: such a packet appends the decoded text followed by one line
\* feed to standard output (one line when the text holds no line feed) and
\* nothing to the diagnostic stream, whatever the filter that lets it through.
C5_TextEmitted ==
    [][C5_Case =>
          /\ stderr' = stderr
          /\ stdout' = stdout \o Decode(packet'.payload).val \o <<10>>
          /\ outcome' = "returned"]_vars

\* a two-byte UTF-8 payload from node 42 went through the filter 42
C5_Witness ==
    /\ received = 1
    /\ remote_num = PyInt(42)
    /\ packet = TextPacket(<<195, 169>>)
    /\ stdout = <<233, 10>>
    /\ stderr = <<>>

\* C6: in text mode each input line is sent once, in order, without its
\* trailing line terminator and otherwise unaltered.
C6_LinesForwarded ==
    ~binary =>
        /\ Len(calls) = Len(reads)
        /\ \A i \in 1..Len(calls) :
              /\ calls[i].fn = "send_message"
              /\ calls[i].data = StripTerminator(reads[i].data)

\* C7: one transport is created, before any send; a run that has left the
\* read loop (end of input, interrupt, failed send) has closed it exactly
\* once, and it is never closed twice.
C7_ClosedOnce ==
    /\ created <= 1
    /\ sent # <<>> => created = 1
    /\ closes <= 1
    /\ (subscribed /\ pc \in {"done", "crashed"}) => closes = 1

\* C8: in binary mode every read asks for at most 200 bytes, the non-empty
\* chunks read are exactly the send_data calls, in order, and an empty read
\* is the last read: the loop is left and the program goes on to close().
C8_BinaryChunks ==
    binary =>
        /\ \A i \in 1..Len(reads) :
              reads[i].n <= 200 /\ Len(reads[i].data) <= reads[i].n
        /\ LET chunks == SelectSeq(reads, LAMBDA r : r.data # <<>>)
           IN  /\ Len(calls) = Len(chunks) /\ Len(sent) = Len(chunks)
               /\ \A i \in 1..Len(chunks) :
                     /\ calls[i].fn = "send_data" /\ calls[i].data = chunks[i].data
                     /\ sent[i].op = "sendData" /\ sent[i].payload = chunks[i].data
        /\ \A i \in 1..Len(reads) :
              reads[i].data = <<>> =>
                  /\ i = Len(reads)
                  /\ must_exit
                  /\ pc \in {"while", "close", "done"}

\* 401 bytes were read as three chunks, then the empty read, then close()
C8_Witness ==
    /\ binary
    /\ pc = "done"
    /\ closes = 1
    /\ Len(reads) = 4
    /\ Len(reads[1].data) = 200
    /\ Len(reads[3].data) = 1
    /\ reads[4].data = <<>>
    /\ Len(sent) = 3

\* C9: a ROUTING_APP or TELEMETRY_APP packet, and a packet without a
\* decoded part, leaves both streams as they were, with or without a filter.
C9_Silent ==
    [][(/\ Delivered
        /\ \/ ~packet'.decoded
           \/ packet'.portnum \in {"ROUTING_APP", "TELEMETRY_APP"})
       => (stdout' = stdout /\ stderr' = stderr /\ outcome' = "returned")]_vars

\* after a text message was printed, a routing packet got through (no
\* filter) and left the output as it was
C9_Witness ==
    /\ received = 2
    /\ remote_num = PyNone
    /\ packet = Tagged("ROUTING_APP")
    /\ stdout = <<104, 105, 10>>
    /\ stderr = <<>>
    /\ outcome = "returned"

\* C10: a node-info or position report is one complete line of its own on
\* the diagnostic stream, starting with its prefix, and nothing on standard
\* output.
C10_ReportLines ==
    [][(/\ Delivered
        /\ packet'.decoded
        /\ packet'.portnum \in {"NODEINFO_APP", "POSITION_APP"}
        /\ stderr' # stderr)
       => LET w == Written(stderr, stderr')
          IN  /\ stdout' = stdout
              /\ \/ HasPrefix(w, <<95, 95, 110, 111, 100, 101, 105, 110, 102, 111, 58, 32>>)
                 \/ HasPrefix(w, <<95, 95, 112, 111, 115, 105, 116, 105, 111, 110, 58, 32>>)
              /\ w[Len(w)] = 10
              /\ LineFeeds(w) = 1]_vars

====
